---- MODULE Spec2Model ----
(***************************************************************************)
(* Job registry (ProgressTracker), event fan-out, download driver and      *)
(* one-shot download tokens of the YouTube audio downloader backend.       *)
(*                                                                         *)
(* Time is Date.now() in milliseconds.  JavaScript runs every handler to   *)
(* completion on one thread, so each handler (and each timer callback) is  *)
(* one atomic action.  An undefined field is <<>>, a defined one <<v>>.     *)
(***************************************************************************)
EXTENDS Integers, Sequences, FiniteSets, TLC

VARIABLES
  now,            \* Date.now()
  downloads,      \* ProgressTracker.downloads : downloadId -> record
  nextId,         \* ids handed out so far are 1..nextId-1 (uuidv4 never repeats)
  sinks,          \* SSE response objects: sink -> [received, ended, job]
  broken,         \* sinks whose write() throws (every write, from the first)
  closeTimers,    \* pending setTimeout(closeClients) : set of [id, due]
  nextCleanup,    \* due time of the next setInterval(cleanup) tick
  budget,         \* events from outside (requests, method calls, process events) still allowed
  lastAdd,        \* the last subscribe attempt: job, sink, whether it was accepted
  pc,             \* position of each job's background task
  downloadTokens, \* token store : hash -> [filename, expiresAt, used]
  nextToken,      \* tokens handed out so far are 1..nextToken-1
  tokenTimers,    \* pending setTimeout(delete) : set of [hash, due]
  nextSweep,      \* due time of the next expired-token sweep
  validations,    \* log of validateDownloadToken calls and their results
  lastReq,        \* the last HTTP exchange: route, what was asked, status answered
  limits,         \* express-rate-limit stores: limiter -> client -> [hits, resetTime]
  files,          \* names of the files in the downloads directory
  call,           \* the last call of a validator: [fn, arg, ret]
  hook            \* the page's useDownloadProgress: its state, closure, EventSource, timer

trackerVars == <<downloads, nextId, sinks, broken, closeTimers, nextCleanup, lastAdd>>
tokenVars == <<downloadTokens, nextToken, tokenTimers, nextSweep, validations>>
webVars == <<lastReq, limits, files, call, hook>>
vars == <<now, budget, pc, trackerVars, tokenVars, webVars>>

----------------------------------------------------------------------------
(* Bounds of the model *)
MaxJobs == 2
MaxSinks == 3
MaxEvents == 5
MaxTicks == 5
MaxApiTicks == 1
MaxTokens == 1
MaxValidations == 2
MaxTokenTicks == 7

(* Program constants *)
oneHour == 60 * 60 * 1000
CleanupIntervalMs == 60 * 60 * 1000
CloseDelayMs == 1000

(* Granularity of the modelled clock: 30 minutes *)
TickMs == 30 * 60 * 1000
StartTime == TickMs
MaxTime == StartTime + MaxTicks * TickMs
MaxApiTime == StartTime + MaxApiTicks * TickMs

(* Granularity of the clock where only the token store is observed: 1 minute *)
TokenTickMs == 60 * 1000
MaxTokenTime == StartTime + MaxTokenTicks * TokenTickMs

None == <<>>
Some(v) == <<v>>
IsSome(o) == o # <<>>
Val(o) == o[1]

Min(a, b) == IF a <= b THEN a ELSE b

Statuses == {"initializing", "fetching_metadata", "downloading", "completed", "failed"}
Terminal == {"completed", "failed"}

\* JavaScript truthiness of an optional timestamp: undefined and 0 are falsy
TruthyTime(o) == IsSome(o) /\ Val(o) # 0

----------------------------------------------------------------------------
(* ProgressTracker.  Its methods are functions of the tracker state         *)
(* T = [dl |-> downloads, snk |-> sinks, tm |-> closeTimers,                *)
(*      brk |-> broken] and of the time t                                   *)

\* (startTime and metadata are written once and never read: left out)
NewDownload(id) ==
  [ id |-> id, progress |-> 0, speed |-> "0 B/s", eta |-> "calculating...",
    status |-> "initializing", statusMessage |-> None,
    clients |-> {}, result |-> None, error |-> None,
    completedAt |-> None, failedAt |-> None ]

createDownload(T, id) ==
  [T EXCEPT !.dl = T.dl @@ (id :> NewDownload(id))]

\* sendEvent: one write to one sink; a throwing write is caught and dropped
sendEvent(T, s, frame) ==
  IF s \in T.brk THEN T.snk
  ELSE [T.snk EXCEPT ![s].received = Append(@, frame)]

notifyClients_FirstOnly(T, id, frame) ==
  IF id \notin DOMAIN T.dl \/ T.dl[id].clients = {} THEN T.snk
  ELSE sendEvent(T, CHOOSE s \in T.dl[id].clients : \A o \in T.dl[id].clients : s <= o, frame)

notifyClients_StopAtBroken(T, id, frame) ==
  IF id \notin DOMAIN T.dl THEN T.snk
  ELSE [s \in DOMAIN T.snk |->
          IF s \in T.dl[id].clients /\ \A o \in T.dl[id].clients \cap T.brk : s < o
          THEN sendEvent(T, s, frame)[s]
          ELSE T.snk[s]]

\* notifyClients: sendEvent to every client of the download
notifyClients(T, id, frame) ==
  IF id \notin DOMAIN T.dl THEN T.snk
  ELSE [s \in DOMAIN T.snk |->
          IF s \in T.dl[id].clients THEN sendEvent(T, s, frame)[s]
          ELSE T.snk[s]]

ConnectedFrame_Initial(d) ==
  [type |-> "connected", downloadId |-> d.id, progress |-> 0, status |-> "initializing"]

ConnectedFrame(d) ==
  [type |-> "connected", downloadId |-> d.id, progress |-> d.progress, status |-> d.status]

StatusFrame(id, status, message) ==
  [type |-> "status", downloadId |-> id, status |-> status, message |-> message]

ProgressFrame(id, data) ==
  [type |-> "progress", downloadId |-> id, progress |-> data.progress,
   speed |-> data.speed, eta |-> data.eta, status |-> data.status]

CompleteFrame(id, result) ==
  [type |-> "complete", downloadId |-> id, result |-> result]

\* error.message || 'Download failed'
ErrorMessage(error) == IF error # "" THEN error ELSE "Download failed"

ErrorFrame(id, error) ==
  [type |-> "error", downloadId |-> id, error |-> ErrorMessage(error)]

\* Object.assign(download, data)
AssignProgress(d, data) ==
  [d EXCEPT !.progress = data.progress, !.speed = data.speed,
            !.eta = data.eta, !.status = data.status]

updateProgress(T, id, data) ==
  IF id \notin DOMAIN T.dl THEN T
  ELSE LET T1 == [T EXCEPT !.dl[id] = AssignProgress(@, data)]
       IN  [T1 EXCEPT !.snk = notifyClients(T1, id, ProgressFrame(id, data))]

AssignStatus(d, status, message) ==
  [d EXCEPT !.status = status, !.statusMessage = Some(message)]

updateStatus(T, id, status, message) ==
  IF id \notin DOMAIN T.dl THEN T
  ELSE LET T1 == [T EXCEPT !.dl[id] = AssignStatus(@, status, message)]
       IN  [T1 EXCEPT !.snk = notifyClients(T1, id, StatusFrame(id, status, message))]

AssignCompleted(d, result, t) ==
  [d EXCEPT !.status = "completed", !.progress = 100,
            !.result = Some(result), !.completedAt = Some(t)]

completeDownload_CloseNow(T, id, result, t) ==
  IF id \notin DOMAIN T.dl THEN T
  ELSE LET T1 == [T EXCEPT !.dl[id] = AssignCompleted(@, result, t)]
           T2 == [T1 EXCEPT !.snk = notifyClients(T1, id, CompleteFrame(id, result))]
       IN  [T2 EXCEPT
              !.snk = [s \in DOMAIN T2.snk |->
                         IF s \in T2.dl[id].clients THEN [T2.snk[s] EXCEPT !.ended = TRUE]
                         ELSE T2.snk[s]],
              !.dl[id].clients = {}]

completeDownload(T, id, result, t) ==
  IF id \notin DOMAIN T.dl THEN T
  ELSE LET T1 == [T EXCEPT !.dl[id] = AssignCompleted(@, result, t)]
       IN  [T1 EXCEPT !.snk = notifyClients(T1, id, CompleteFrame(id, result)),
                      !.tm = @ \cup {[id |-> id, due |-> t + CloseDelayMs]}]

AssignFailed_KeepStatus(d, error, t) ==
  [d EXCEPT !.error = Some(error), !.failedAt = Some(t)]

AssignFailed(d, error, t) ==
  [d EXCEPT !.status = "failed", !.error = Some(error), !.failedAt = Some(t)]

failDownload(T, id, error, t) ==
  IF id \notin DOMAIN T.dl THEN T
  ELSE LET T1 == [T EXCEPT !.dl[id] = AssignFailed(@, error, t)]
       IN  [T1 EXCEPT !.snk = notifyClients(T1, id, ErrorFrame(id, error)),
                      !.tm = @ \cup {[id |-> id, due |-> t + CloseDelayMs]}]

\* addClient(downloadId, res) for the response object s; ret is its return value
FreshSink == [received |-> <<>>, ended |-> FALSE, job |-> 0]

addClient_AlwaysTrue(T, id, s) ==
  IF id \notin DOMAIN T.dl
  THEN [T |-> [T EXCEPT !.snk = T.snk @@ (s :> FreshSink)], ret |-> TRUE]
  ELSE LET T1 == [T EXCEPT !.dl[id].clients = @ \cup {s},
                           !.snk = T.snk @@ (s :> [FreshSink EXCEPT !.job = id])]
       IN  [T |-> [T1 EXCEPT !.snk = sendEvent(T1, s, ConnectedFrame(T1.dl[id]))],
            ret |-> TRUE]

addClient(T, id, s) ==
  IF id \notin DOMAIN T.dl
  THEN [T |-> [T EXCEPT !.snk = T.snk @@ (s :> FreshSink)], ret |-> FALSE]
  ELSE LET T1 == [T EXCEPT !.dl[id].clients = @ \cup {s},
                           !.snk = T.snk @@ (s :> [FreshSink EXCEPT !.job = id])]
       IN  [T |-> [T1 EXCEPT !.snk = sendEvent(T1, s, ConnectedFrame(T1.dl[id]))],
            ret |-> TRUE]

removeClient(T, id, s) ==
  IF id \notin DOMAIN T.dl THEN T
  ELSE [T EXCEPT !.dl[id].clients = @ \ {s}]

\* closeClients: end() every client, then clear the set
closeClients(T, id) ==
  IF id \notin DOMAIN T.dl THEN T
  ELSE [T EXCEPT
          !.snk = [s \in DOMAIN T.snk |->
                     IF s \in T.dl[id].clients THEN [T.snk[s] EXCEPT !.ended = TRUE]
                     ELSE T.snk[s]],
          !.dl[id].clients = {}]

hasDownload(T, id) == id \in DOMAIN T.dl

IsOld_CompletedOnly(d, t) ==
  TruthyTime(d.completedAt) /\ t - Val(d.completedAt) > oneHour

\* cleanup: a download is old once a terminal timestamp is over an hour back
IsOld(d, t) ==
  \/ (TruthyTime(d.completedAt) /\ t - Val(d.completedAt) > oneHour)
  \/ (TruthyTime(d.failedAt) /\ t - Val(d.failedAt) > oneHour)

RECURSIVE cleanupFrom(_, _, _)
cleanupFrom(T, ids, t) ==
  IF ids = {} THEN T
  ELSE LET id == CHOOSE i \in ids : TRUE
           T1 == IF IsOld(T.dl[id], t)
                 THEN LET T2 == closeClients(T, id)
                      IN  [T2 EXCEPT !.dl = [i \in DOMAIN T2.dl \ {id} |-> T2.dl[i]]]
                 ELSE T
       IN  cleanupFrom(T1, ids \ {id}, t)

cleanup_NoClose(T, t) ==
  [T EXCEPT !.dl = [i \in {j \in DOMAIN T.dl : ~IsOld(T.dl[j], t)} |-> T.dl[i]]]

cleanup(T, t) == cleanupFrom(T, DOMAIN T.dl, t)

----------------------------------------------------------------------------
(* Download tokens (tokenGenerator) *)

TOKEN_EXPIRY_MS == 300000
TokenDeleteDelayMs == 60000
TokenSweepIntervalMs == 5 * 60 * 1000

\* sha256 of the token: injective on the tokens used here, not the identity
Hash(token) == (token * 7 + 3) % 31

\* The token store K = [store |-> downloadTokens, tm |-> tokenTimers]
generateDownloadToken(K, token, filename, t) ==
  [K EXCEPT !.store =
     [h \in DOMAIN K.store \cup {Hash(token)} |->
        IF h = Hash(token)
        THEN [filename |-> filename, expiresAt |-> t + TOKEN_EXPIRY_MS, used |-> FALSE]
        ELSE K.store[h]]]

DeleteToken(store, hash) == [h \in DOMAIN store \ {hash} |-> store[h]]

Valid == [valid |-> TRUE, error |-> ""]
Invalid(error) == [valid |-> FALSE, error |-> error]

\* the checks of validateDownloadToken in their order: the reason of the first
\* one that fails, "" when none does
TokenError_NoExpiry(store, hash, filename, t) ==
  IF hash \notin DOMAIN store THEN "Invalid token"
  ELSE IF store[hash].used THEN "Token already used"
  ELSE IF store[hash].filename # filename THEN "Token does not match file"
  ELSE ""

TokenError(store, hash, filename, t) ==
  IF hash \notin DOMAIN store THEN "Invalid token"
  ELSE IF store[hash].used THEN "Token already used"
  ELSE IF t > store[hash].expiresAt THEN "Token expired"
  ELSE IF store[hash].filename # filename THEN "Token does not match file"
  ELSE ""

validateDownloadToken_KeepExpired(K, token, filename, t) ==
  LET hash == Hash(token)
      err == TokenError(K.store, hash, filename, t)
  IN  IF err # ""
        THEN [K |-> K, result |-> Invalid(err)]
      ELSE [K |-> [K EXCEPT !.store[hash].used = TRUE,
                            !.tm = @ \cup {[hash |-> hash, due |-> t + TokenDeleteDelayMs]}],
            result |-> Valid]

validateDownloadToken_NoMark(K, token, filename, t) ==
  LET hash == Hash(token)
      err == TokenError(K.store, hash, filename, t)
  IN  IF err = "Token expired"
        THEN [K |-> [K EXCEPT !.store = DeleteToken(@, hash)], result |-> Invalid(err)]
      ELSE IF err # ""
        THEN [K |-> K, result |-> Invalid(err)]
      ELSE [K |-> [K EXCEPT !.tm = @ \cup {[hash |-> hash, due |-> t + TokenDeleteDelayMs]}],
            result |-> Valid]

validateDownloadToken_MarkFirst(K, token, filename, t) ==
  LET hash == Hash(token)
      err == TokenError(K.store, hash, filename, t)
  IN  IF err = "Token expired"
        THEN [K |-> [K EXCEPT !.store = DeleteToken(@, hash)], result |-> Invalid(err)]
      ELSE IF err = "Token does not match file"
        THEN [K |-> [K EXCEPT !.store[hash].used = TRUE], result |-> Invalid(err)]
      ELSE IF err # ""
        THEN [K |-> K, result |-> Invalid(err)]
      ELSE [K |-> [K EXCEPT !.store[hash].used = TRUE,
                            !.tm = @ \cup {[hash |-> hash, due |-> t + TokenDeleteDelayMs]}],
            result |-> Valid]

validateDownloadToken(K, token, filename, t) ==
  LET hash == Hash(token)
      err == TokenError(K.store, hash, filename, t)
  IN  IF err = "Token expired"
        THEN [K |-> [K EXCEPT !.store = DeleteToken(@, hash)], result |-> Invalid(err)]
      ELSE IF err # ""
        THEN [K |-> K, result |-> Invalid(err)]
      ELSE [K |-> [K EXCEPT !.store[hash].used = TRUE,
                            !.tm = @ \cup {[hash |-> hash, due |-> t + TokenDeleteDelayMs]}],
            result |-> Valid]

\* the sweep of expired tokens
sweepExpired(store, t) ==
  [h \in {g \in DOMAIN store : ~(t > store[g].expiresAt)} |-> store[h]]

----------------------------------------------------------------------------
(* yt-dlp output and its parser *)

\* One stdout line of yt-dlp as its whitespace-separated tokens
Word(w) == [k |-> "word", v |-> w]
Pct(n) == [k |-> "pct", n |-> n]
Rate(r) == [k |-> "rate", v |-> r]
Clock(c) == [k |-> "clock", v |-> c]

LineFull(n) ==
  <<Word("[download]"), Pct(n), Word("of"), Word("10.5MiB"), Word("at"),
    Rate("1.2MiB/s"), Word("ETA"), Clock("00:05")>>
LineDone ==
  <<Word("[download]"), Pct(100), Word("of"), Word("10.5MiB"), Word("in"), Clock("00:08")>>
LineInfo == <<Word("[ExtractAudio]"), Word("Destination:"), Word("song.mp3")>>
LineResume ==
  <<Word("[download]"), Word("Resuming"), Word("at"), Rate("1.2MiB/s"),
    Word("ETA"), Clock("00:05")>>

Lines == {LineFull(60), LineFull(30), LineDone, LineInfo, LineResume}

IsWord(tok, w) == tok.k = "word" /\ tok.v = w

First(S) == CHOOSE i \in S : \A j \in S : i <= j

\* output.match(/(\d+\.?\d*)%/) : the first percentage of the line
PercentMatch(line) ==
  LET hits == {i \in 1..Len(line) : line[i].k = "pct"}
  IN  IF hits = {} THEN None ELSE Some(line[First(hits)].n)

\* output.match(/at\s+([\d.]+\w+\/s)/) : a rate right after the word "at"
SpeedMatch(line) ==
  LET hits == {i \in 1..(Len(line) - 1) : IsWord(line[i], "at") /\ line[i + 1].k = "rate"}
  IN  IF hits = {} THEN None ELSE Some(line[First(hits) + 1].v)

\* output.match(/ETA\s+(\d+:\d+)/) : a clock right after the word "ETA"
EtaMatch(line) ==
  LET hits == {i \in 1..(Len(line) - 1) : IsWord(line[i], "ETA") /\ line[i + 1].k = "clock"}
  IN  IF hits = {} THEN None ELSE Some(line[First(hits) + 1].v)

parseYtDlpProgress(line) ==
  [progress |-> PercentMatch(line), speed |-> SpeedMatch(line), eta |-> EtaMatch(line)]

\* x || 'calculating...'
OrCalculating(o) == IF IsSome(o) /\ Val(o) # "" THEN Val(o) ELSE "calculating..."

\* the 'progress' handler of executeDownloadWithProgress
OnProgress(T, id, line) ==
  LET parsed == parseYtDlpProgress(line) IN
  IF IsSome(parsed.progress)
  THEN updateProgress(T, id, [progress |-> Val(parsed.progress),
                              speed |-> OrCalculating(parsed.speed),
                              eta |-> OrCalculating(parsed.eta),
                              status |-> "downloading"])
  ELSE T

----------------------------------------------------------------------------
(* Actions *)

Cur == [dl |-> downloads, snk |-> sinks, tm |-> closeTimers, brk |-> broken]

Commit(T) ==
  /\ downloads' = T.dl
  /\ sinks' = T.snk
  /\ closeTimers' = T.tm
  /\ broken' = T.brk

CurTokens == [store |-> downloadTokens, tm |-> tokenTimers]

CommitTokens(K) ==
  /\ downloadTokens' = K.store
  /\ tokenTimers' = K.tm

Ids == 1..(nextId - 1)

NewSink == Cardinality(DOMAIN sinks) + 1

\* a response object whose write() throws is broken from its first write
WithSink(T, s, throws) == IF throws THEN [T EXCEPT !.brk = @ \cup {s}] ELSE T

NoAdd == [id |-> 0, sink |-> 0, ret |-> FALSE]

NoReq == [route |-> "none", status |-> 0]

Limiters == {"api", "download"}

NoHits == [l \in Limiters |-> <<>>]

NoCall == [fn |-> "none"]

\* useState's initial value, and what reset() sets
IdleState ==
  [progress |-> 0, speed |-> "0 B/s", eta |-> "calculating...", status |-> "idle",
   statusMessage |-> "", result |-> <<>>, error |-> <<>>]

\* the hook before any downloadId: no EventSource, no timer; seen is the state
\* the effect's closure holds
NoHook ==
  [state |-> IdleState, seen |-> IdleState, es |-> "none", timer |-> <<>>,
   mounted |-> FALSE, connects |-> 0]

(* The registry called through its public methods by any caller *)

\* updateStatus(id, status) leaves message at its default ''
StatusMessage(status) ==
  IF status = "fetching_metadata" THEN "Fetching video information..." ELSE ""

ProgressInputs ==
  {[progress |-> 60, speed |-> "1.2MiB/s", eta |-> "00:05", status |-> "downloading"],
   [progress |-> 30, speed |-> "calculating...", eta |-> "calculating...",
    status |-> "downloading"]}

Results == {[file |-> "song.mp3", token |-> 1, message |-> "Download complete"]}

Errors == {"Video unavailable"}

CreateDownload ==
  /\ nextId <= MaxJobs
  /\ nextId' = nextId + 1
  /\ Commit(createDownload(Cur, nextId))
  /\ budget > 0
  /\ budget' = budget - 1
  /\ UNCHANGED <<now, pc, nextCleanup, lastAdd, tokenVars, webVars>>

UpdateProgress(id, data) ==
  /\ budget > 0
  /\ budget' = budget - 1
  /\ Commit(updateProgress(Cur, id, data))
  /\ UNCHANGED <<now, pc, nextId, nextCleanup, lastAdd, tokenVars, webVars>>

UpdateStatus(id, status, message) ==
  /\ budget > 0
  /\ budget' = budget - 1
  /\ Commit(updateStatus(Cur, id, status, message))
  /\ UNCHANGED <<now, pc, nextId, nextCleanup, lastAdd, tokenVars, webVars>>

CompleteDownload(id, result) ==
  /\ budget > 0
  /\ budget' = budget - 1
  /\ Commit(completeDownload(Cur, id, result, now))
  /\ UNCHANGED <<now, pc, nextId, nextCleanup, lastAdd, tokenVars, webVars>>

FailDownload(id, error) ==
  /\ budget > 0
  /\ budget' = budget - 1
  /\ Commit(failDownload(Cur, id, error, now))
  /\ UNCHANGED <<now, pc, nextId, nextCleanup, lastAdd, tokenVars, webVars>>

AddClient(id, throws) ==
  LET s == NewSink
      r == addClient(WithSink(Cur, s, throws), id, s)
  IN  /\ s <= MaxSinks
      /\ Commit(r.T)
      /\ lastAdd' = [id |-> id, sink |-> s, ret |-> r.ret]
      /\ budget > 0
      /\ budget' = budget - 1
      /\ UNCHANGED <<now, pc, nextId, nextCleanup, tokenVars, webVars>>

\* the request's 'close' event: removeClient(downloadId, res)
RemoveClient(s) ==
  /\ sinks[s].job \in DOMAIN downloads
  /\ s \in downloads[sinks[s].job].clients
  /\ Commit(removeClient(Cur, sinks[s].job, s))
  /\ budget > 0
  /\ budget' = budget - 1
  /\ UNCHANGED <<now, pc, nextId, nextCleanup, lastAdd, tokenVars, webVars>>

\* the setTimeout(() => closeClients(id), 1000) callback
CloseClients(tmr) ==
  /\ tmr.due <= now
  /\ Commit([closeClients(Cur, tmr.id) EXCEPT !.tm = @ \ {tmr}])
  /\ UNCHANGED <<now, budget, pc, nextId, nextCleanup, lastAdd, tokenVars, webVars>>

\* the setInterval(() => cleanup(), 60 * 60 * 1000) callback
Cleanup ==
  /\ nextCleanup <= now
  /\ Commit(cleanup(Cur, now))
  /\ nextCleanup' = nextCleanup + CleanupIntervalMs
  /\ UNCHANGED <<now, budget, pc, nextId, lastAdd, tokenVars, webVars>>

\* time passes, but never past a timer that is due
TrackerDue == {tmr.due : tmr \in closeTimers} \cup {nextCleanup}

RECURSIVE SetMin(_)
SetMin(S) ==
  LET x == CHOOSE e \in S : TRUE
  IN  IF S = {x} THEN x ELSE Min(x, SetMin(S \ {x}))

NextGrid(t, step) == ((t \div step) + 1) * step

Tick(limit) ==
  /\ now < limit
  /\ \A d \in TrackerDue : d > now
  /\ now' = Min(NextGrid(now, TickMs), SetMin(TrackerDue))
  /\ UNCHANGED <<budget, pc, trackerVars, tokenVars, webVars>>

Init ==
  /\ now = StartTime
  /\ downloads = <<>>
  /\ nextId = 1
  /\ sinks = <<>>
  /\ broken = {}
  /\ closeTimers = {}
  /\ nextCleanup = StartTime + CleanupIntervalMs
  /\ budget = MaxEvents
  /\ lastAdd = NoAdd
  /\ pc = <<>>
  /\ downloadTokens = <<>>
  /\ nextToken = 1
  /\ tokenTimers = {}
  /\ nextSweep = StartTime + TokenSweepIntervalMs
  /\ validations = <<>>
  /\ lastReq = NoReq
  /\ limits = NoHits
  /\ files = {}
  /\ call = NoCall
  /\ hook = NoHook

Next ==
  \/ CreateDownload
  \/ \E id \in Ids, data \in ProgressInputs : UpdateProgress(id, data)
  \/ \E id \in Ids, st \in Statuses : UpdateStatus(id, st, StatusMessage(st))
  \/ \E id \in Ids, r \in Results : CompleteDownload(id, r)
  \/ \E id \in Ids, e \in Errors : FailDownload(id, e)
  \/ \E id \in Ids, th \in BOOLEAN : AddClient(id, th)
  \/ \E s \in DOMAIN sinks : RemoveClient(s)
  \/ \E tmr \in closeTimers : CloseClients(tmr)
  \/ Tick(MaxApiTime)

Spec == Init /\ [][Next]_vars

\* the mutations and the subscribers they are sent to
FanoutNext ==
  \/ CreateDownload
  \/ \E id \in Ids, data \in ProgressInputs : UpdateProgress(id, data)
  \/ \E id \in Ids, st \in Statuses : UpdateStatus(id, st, StatusMessage(st))
  \/ \E id \in Ids, r \in Results : CompleteDownload(id, r)
  \/ \E id \in Ids, e \in Errors : FailDownload(id, e)
  \/ \E id \in Ids, th \in BOOLEAN : AddClient(id, th)

FanoutSpec == Init /\ [][FanoutNext]_vars

(* The registry over its retention window: terminal transitions, subscriptions *)
(* and the timers (updateStatus and updateProgress write no timestamp)         *)
RetentionNext ==
  \/ CreateDownload
  \/ \E id \in Ids, r \in Results : CompleteDownload(id, r)
  \/ \E id \in Ids, e \in Errors : FailDownload(id, e)
  \/ \E id \in Ids, th \in BOOLEAN : AddClient(id, th)
  \/ \E s \in DOMAIN sinks : RemoveClient(s)
  \/ \E tmr \in closeTimers : CloseClients(tmr)
  \/ Cleanup
  \/ Tick(MaxTime)

RetentionSpec == Init /\ [][RetentionNext]_vars

----------------------------------------------------------------------------
(* POST /download with its background task, GET /download/progress/:id *)

Titles == {"song"}

\* `${validatedCustomName || sanitize(metadata.title || "downloaded")}.${format}`
FileName(title) == IF title # "" THEN "song.mp3" ELSE "downloaded.mp3"

DownloadResult(filename, token) ==
  [file |-> filename, token |-> token, message |-> "Download complete"]

At(id, where) == id \in DOMAIN pc /\ pc[id].at = where

\* the request handler, up to the first await of the background task
StartJob ==
  LET id == nextId
      T1 == createDownload(Cur, id)
      T2 == updateStatus(T1, id, "fetching_metadata", "Fetching video information...")
  IN  /\ nextId' = nextId + 1
      /\ Commit(T2)
      /\ pc' = pc @@ (id :> [at |-> "metadata", file |-> "", last |-> None,
                              exit |-> None, calls |-> <<>>])

PostDownload ==
  /\ nextId <= MaxJobs
  /\ StartJob
  /\ budget > 0
  /\ budget' = budget - 1
  /\ UNCHANGED <<now, nextCleanup, lastAdd, tokenVars, webVars>>

\* getVideoInfo resolved: executeDownloadWithProgress starts yt-dlp
MetadataResolved(id, title) ==
  /\ At(id, "metadata")
  /\ Commit(updateStatus(Cur, id, "downloading", ""))
  /\ pc' = [pc EXCEPT ![id].at = "running", ![id].file = FileName(title)]
  /\ budget > 0
  /\ budget' = budget - 1
  /\ UNCHANGED <<now, nextId, nextCleanup, lastAdd, tokenVars, webVars>>

\* getVideoInfo rejected: the catch block
MetadataRejected(id, err) ==
  /\ At(id, "metadata")
  /\ Commit(failDownload(Cur, id, err, now))
  /\ pc' = [pc EXCEPT ![id].at = "done", ![id].calls = Append(@, "failDownload")]
  /\ budget > 0
  /\ budget' = budget - 1
  /\ UNCHANGED <<now, nextId, nextCleanup, lastAdd, tokenVars, webVars>>

\* a 'progress' event of the running process
ProcProgress(id, line) ==
  /\ At(id, "running")
  /\ budget > 0
  /\ budget' = budget - 1
  /\ Commit(OnProgress(Cur, id, line))
  /\ pc' = [pc EXCEPT ![id].last = Some(line)]
  /\ UNCHANGED <<now, nextId, nextCleanup, lastAdd, tokenVars, webVars>>

\* yt-dlp-wrap emits 'close' when the process exits with code 0, 'error' with
\* the exit code otherwise
ExitCodes == {1, 2}

\* the task after executeDownloadWithProgress resolved
Finish(id) ==
  LET token == nextToken
      filename == pc[id].file
  IN  /\ nextToken' = nextToken + 1
      /\ CommitTokens(generateDownloadToken(CurTokens, token, filename, now))
      /\ Commit(completeDownload(Cur, id, DownloadResult(filename, token), now))

ProcClose_ThenFail(id) ==
  LET filename == pc[id].file
      T1 == completeDownload(Cur, id, DownloadResult(filename, nextToken), now)
  IN  /\ At(id, "running")
      /\ nextToken' = nextToken + 1
      /\ CommitTokens(generateDownloadToken(CurTokens, nextToken, filename, now))
      /\ Commit(failDownload(T1, id, "Download failed", now))
      /\ pc' = [pc EXCEPT ![id].at = "done", ![id].exit = Some(0),
                          ![id].calls = @ \o <<"completeDownload", "failDownload">>]
      /\ budget > 0
      /\ budget' = budget - 1
      /\ UNCHANGED <<now, nextId, nextCleanup, lastAdd, nextSweep, validations, webVars>>

\* the 'close' event: the promise resolves and the task completes the download
ProcClose(id) ==
  /\ At(id, "running")
  /\ Finish(id)
  /\ pc' = [pc EXCEPT ![id].at = "done", ![id].exit = Some(0),
                      ![id].calls = Append(@, "completeDownload")]
  /\ budget > 0
  /\ budget' = budget - 1
  /\ UNCHANGED <<now, nextId, nextCleanup, lastAdd, nextSweep, validations, webVars>>

\* the 'error' event: the promise rejects and the catch block fails the download
ProcError(id, code, err) ==
  /\ At(id, "running")
  /\ Commit(failDownload(Cur, id, err, now))
  /\ pc' = [pc EXCEPT ![id].at = "done", ![id].exit = Some(code),
                      ![id].calls = Append(@, "failDownload")]
  /\ budget > 0
  /\ budget' = budget - 1
  /\ UNCHANGED <<now, nextId, nextCleanup, lastAdd, tokenVars, webVars>>

\* GET /download/progress/:downloadId; 200 is the event stream left open
ProgressReply(id, s, status) ==
  [route |-> "progress", id |-> id, sink |-> s, status |-> status]

GetProgress(id, throws) ==
  LET s == NewSink
      r == addClient(WithSink(Cur, s, throws), id, s)
  IN  /\ s <= MaxSinks
      /\ IF ~hasDownload(Cur, id)
         THEN /\ sinks' = sinks @@ (s :> FreshSink)
              /\ lastAdd' = [id |-> id, sink |-> s, ret |-> FALSE]
              /\ lastReq' = ProgressReply(id, s, 404)
              /\ UNCHANGED <<downloads, closeTimers, broken>>
         ELSE /\ Commit(r.T)
              /\ lastAdd' = [id |-> id, sink |-> s, ret |-> r.ret]
              /\ lastReq' = ProgressReply(id, s, IF r.ret THEN 200 ELSE 404)
      /\ budget > 0
      /\ budget' = budget - 1
      /\ UNCHANGED <<now, pc, nextId, nextCleanup, tokenVars, limits, files, call, hook>>

DriverNext ==
  \/ PostDownload
  \/ \E id \in Ids, title \in Titles : MetadataResolved(id, title)
  \/ \E id \in Ids, e \in Errors : MetadataRejected(id, e)
  \/ \E id \in Ids, line \in Lines : ProcProgress(id, line)
  \/ \E id \in Ids : ProcClose(id)
  \/ \E id \in Ids, code \in ExitCodes, e \in Errors : ProcError(id, code, e)
  \/ \E id \in 1..MaxJobs, th \in BOOLEAN : GetProgress(id, th)
  \/ \E s \in DOMAIN sinks : RemoveClient(s)
  \/ \E tmr \in closeTimers : CloseClients(tmr)
  \/ Tick(MaxApiTime)

DriverSpec == Init /\ [][DriverNext]_vars

\* jobs run by their background tasks, and the hourly sweep; the timers fire
SweepNext ==
  \/ PostDownload
  \/ \E id \in Ids, title \in Titles : MetadataResolved(id, title)
  \/ \E id \in Ids, e \in Errors : MetadataRejected(id, e)
  \/ \E id \in Ids : ProcClose(id)
  \/ \E id \in Ids : GetProgress(id, FALSE)
  \/ \E tmr \in closeTimers : CloseClients(tmr)
  \/ Cleanup
  \/ Tick(MaxTime)

SweepSpec ==
  /\ Init
  /\ [][SweepNext]_vars
  /\ WF_vars(\E tmr \in closeTimers : CloseClients(tmr))
  /\ WF_vars(Cleanup)
  /\ WF_vars(Tick(MaxTime))

\* subscribing to ids that were never created or were swept
LookupNext ==
  \/ CreateDownload
  \/ \E id \in Ids, r \in Results : CompleteDownload(id, r)
  \/ \E id \in 1..MaxJobs : AddClient(id, FALSE)
  \/ \E id \in 1..MaxJobs : GetProgress(id, FALSE)
  \/ \E tmr \in closeTimers : CloseClients(tmr)
  \/ Cleanup
  \/ Tick(MaxTime)

LookupSpec == Init /\ [][LookupNext]_vars

----------------------------------------------------------------------------
(* The token store on its own: issue, validate, the two timers *)

Filenames == {"song.mp3", "other.mp3"}

\* a presented token: one that was issued, or one that never is
Presented == 1..(MaxTokens + 1)

IssueToken(filename) ==
  /\ nextToken <= MaxTokens
  /\ nextToken' = nextToken + 1
  /\ CommitTokens(generateDownloadToken(CurTokens, nextToken, filename, now))
  /\ UNCHANGED <<now, budget, pc, trackerVars, nextSweep, validations, webVars>>

ValidateToken(token, filename) ==
  LET r == validateDownloadToken(CurTokens, token, filename, now) IN
  /\ Len(validations) < MaxValidations
  /\ CommitTokens(r.K)
  /\ validations' = Append(validations,
                           [token |-> token, filename |-> filename, result |-> r.result])
  /\ UNCHANGED <<now, budget, pc, trackerVars, nextToken, nextSweep, webVars>>

\* the setTimeout(() => downloadTokens.delete(hash), 60000) callback
DeleteUsedToken(tmr) ==
  /\ tmr.due <= now
  /\ downloadTokens' = DeleteToken(downloadTokens, tmr.hash)
  /\ tokenTimers' = tokenTimers \ {tmr}
  /\ UNCHANGED <<now, budget, pc, trackerVars, nextToken, nextSweep, validations, webVars>>

\* the setInterval callback that drops expired tokens
SweepTokens ==
  /\ nextSweep <= now
  /\ downloadTokens' = sweepExpired(downloadTokens, now)
  /\ nextSweep' = nextSweep + TokenSweepIntervalMs
  /\ UNCHANGED <<now, budget, pc, trackerVars, nextToken, tokenTimers, validations, webVars>>

TokenDue == {tmr.due : tmr \in tokenTimers} \cup {nextSweep}

TokenTick ==
  /\ now < MaxTokenTime
  /\ \A d \in TokenDue : d > now
  /\ now' = Min(NextGrid(now, TokenTickMs), SetMin(TokenDue))
  /\ UNCHANGED <<budget, pc, trackerVars, tokenVars, webVars>>

\* authenticateDownload(req, res, next): query is req.query.token (None when
\* missing), filename is path.basename(req.path)
authenticateDownload(K, query, filename, t) ==
  IF ~IsSome(query)
  THEN [K |-> K, next |-> FALSE, status |-> 401, error |-> "Download token required"]
  ELSE LET r == validateDownloadToken(K, Val(query), filename, t)
       IN  IF ~r.result.valid
           THEN [K |-> r.K, next |-> FALSE, status |-> 403, error |-> r.result.error]
           ELSE [K |-> r.K, next |-> TRUE, status |-> 0, error |-> ""]

\* the "/downloads" chain with express.static mounted in front of the check
serveDownload_StaticFirst(K, F, query, filename, t) ==
  IF filename \in F
  THEN [K |-> K, status |-> 200, error |-> ""]
  ELSE LET a == authenticateDownload(K, query, filename, t)
       IN  IF ~a.next THEN [K |-> a.K, status |-> a.status, error |-> a.error]
           ELSE [K |-> a.K, status |-> 404, error |-> "Not found"]

\* app.use("/downloads", authenticateDownload, express.static(dir)), then
\* notFoundHandler: F is the set of files in the directory
serveDownload(K, F, query, filename, t) ==
  LET a == authenticateDownload(K, query, filename, t)
  IN  IF ~a.next THEN [K |-> a.K, status |-> a.status, error |-> a.error]
      ELSE IF filename \in F THEN [K |-> a.K, status |-> 200, error |-> ""]
      ELSE [K |-> a.K, status |-> 404, error |-> "Not found"]

Queries == {None} \cup {Some(token) : token \in Presented}

\* GET /downloads/<filename>?token=<token>
GetDownload(query, filename) ==
  LET r == serveDownload(CurTokens, files, query, filename, now) IN
  /\ CommitTokens(r.K)
  /\ lastReq' = [route |-> "downloads", query |-> query, filename |-> filename,
                 status |-> r.status, error |-> r.error]
  /\ UNCHANGED <<now, budget, pc, trackerVars, nextToken, nextSweep, validations,
                 limits, files, call, hook>>

\* yt-dlp writes its output file (-o outputFile) into the downloads directory
FileWritten(f) ==
  /\ f \notin files
  /\ files' = files \cup {f}
  /\ UNCHANGED <<now, budget, pc, trackerVars, tokenVars, lastReq, limits, call, hook>>

GatewayNext ==
  \/ \E f \in Filenames : IssueToken(f)
  \/ \E f \in Filenames : FileWritten(f)
  \/ \E q \in Queries, f \in Filenames : GetDownload(q, f)
  \/ \E tmr \in tokenTimers : DeleteUsedToken(tmr)
  \/ SweepTokens
  \/ TokenTick

GatewaySpec == Init /\ [][GatewayNext]_vars

TokenNext ==
  \/ \E f \in Filenames : IssueToken(f)
  \/ \E token \in Presented, f \in Filenames : ValidateToken(token, f)
  \/ \E tmr \in tokenTimers : DeleteUsedToken(tmr)
  \/ SweepTokens
  \/ TokenTick

TokenSpec == Init /\ [][TokenNext]_vars

----------------------------------------------------------------------------
(* Request validation: JavaScript values, strings as sequences of characters *)

Undefined == [t |-> "undefined"]
Num(n) == [t |-> "number", n |-> n]
Str(chars) == [t |-> "string", s |-> chars]

IsString(v) == v.t = "string"

\* !v
Falsy(v) ==
  \/ v.t \in {"undefined", "null"}
  \/ (v.t = "string" /\ v.s = <<>>)
  \/ (v.t = "number" /\ v.n = 0)

UpperCase == <<"A", "B", "C", "D", "E", "F", "G", "H", "I", "J", "K", "L", "M",
               "N", "O", "P", "Q", "R", "S", "T", "U", "V", "W", "X", "Y", "Z">>

LowerCase == <<"a", "b", "c", "d", "e", "f", "g", "h", "i", "j", "k", "l", "m",
               "n", "o", "p", "q", "r", "s", "t", "u", "v", "w", "x", "y", "z">>

LowerChar(c) ==
  IF \E i \in DOMAIN UpperCase : UpperCase[i] = c
  THEN LowerCase[CHOOSE i \in DOMAIN UpperCase : UpperCase[i] = c]
  ELSE c

\* String.prototype.toLowerCase
toLowerCase(s) == [i \in DOMAIN s |-> LowerChar(s[i])]

WhiteSpace == {" ", "\t", "\n"}

\* String.prototype.trim
RECURSIVE trimStart(_)
trimStart(s) ==
  IF s # <<>> /\ s[1] \in WhiteSpace THEN trimStart(Tail(s)) ELSE s

RECURSIVE trimEnd(_)
trimEnd(s) ==
  IF s # <<>> /\ s[Len(s)] \in WhiteSpace THEN trimEnd(SubSeq(s, 1, Len(s) - 1)) ELSE s

trim(s) == trimEnd(trimStart(s))

\* String.prototype.includes
includes(s, sub) ==
  \E i \in 1..(Len(s) - Len(sub) + 1) : SubSeq(s, i, i + Len(sub) - 1) = sub

ALLOWED_FORMATS ==
  <<<<"m", "p", "3">>, <<"w", "a", "v">>, <<"f", "l", "a", "c">>,
    <<"m", "4", "a">>, <<"a", "a", "c">>, <<"o", "p", "u", "s">>>>

\* Array.prototype.includes
InList(list, x) == \E i \in DOMAIN list : list[i] = x

FormatOk(format) == [valid |-> TRUE, format |-> format]

Rejected(error) == [valid |-> FALSE, error |-> error]

validateAudioFormat_NoLower(format) ==
  IF Falsy(format) \/ ~IsString(format) THEN Rejected("Format is required")
  ELSE LET normalized == trim(format.s)
       IN  IF ~InList(ALLOWED_FORMATS, normalized)
           THEN Rejected("Format must be one of: mp3, wav, flac, m4a, aac, opus")
           ELSE FormatOk(normalized)

validateAudioFormat(format) ==
  IF Falsy(format) \/ ~IsString(format) THEN Rejected("Format is required")
  ELSE LET normalized == trim(toLowerCase(format.s))
       IN  IF ~InList(ALLOWED_FORMATS, normalized)
           THEN Rejected("Format must be one of: mp3, wav, flac, m4a, aac, opus")
           ELSE FormatOk(normalized)

Null == [t |-> "null"]

Digits == {"0", "1", "2", "3", "4", "5", "6", "7", "8", "9"}

Letters == {UpperCase[i] : i \in DOMAIN UpperCase} \cup {LowerCase[i] : i \in DOMAIN LowerCase}

\* filename.replace(/[^a-zA-Z0-9-_\s]/g, '_')
SanitizeChar(c) ==
  IF c \in Letters \cup Digits \cup {"-", "_"} \cup WhiteSpace THEN c ELSE "_"

MaxFilenameLength == 200

NameOk(filename) == [valid |-> TRUE, filename |-> filename]

validateCustomFilename(filename) ==
  IF Falsy(filename) THEN NameOk(Null)
  ELSE IF ~IsString(filename) THEN Rejected("Filename must be a string")
  ELSE IF Len(filename.s) > MaxFilenameLength
    THEN Rejected("Filename too long (max 200 characters)")
  ELSE IF \/ includes(filename.s, <<".", ".">>)
          \/ includes(filename.s, <<"/">>)
          \/ includes(filename.s, <<"\\">>)
    THEN Rejected("Invalid filename characters")
  ELSE NameOk(Str([i \in DOMAIN filename.s |-> SanitizeChar(filename.s[i])]))

(* A URL string is the sequence of its parts: an optional scheme, a host as *)
(* its dot-separated labels, a path; any other text is one Text part.       *)
Scheme(p) == [part |-> "scheme", v |-> p]
Host(labels) == [part |-> "host", labels |-> labels]
Path(p) == [part |-> "path", v |-> p]
Text(x) == [part |-> "text", v |-> x]

YOUTUBE_DOMAINS ==
  <<<<"youtube", "com">>, <<"www", "youtube", "com">>, <<"m", "youtube", "com">>,
    <<"music", "youtube", "com">>, <<"youtu", "be">>>>

\* host names are compared lower-cased
LowerLabel(l) ==
  CASE l = "YouTube" -> "youtube"
    [] l = "WWW" -> "www"
    [] l = "COM" -> "com"
    [] OTHER -> l

HasScheme(s) == s # <<>> /\ s[1].part = "scheme"

\* the protocol of the string, lower-cased as isURL compares it
LowerScheme(p) ==
  CASE p = "HTTP" -> "http"
    [] p = "HTTPS" -> "https"
    [] OTHER -> p

HostPart(s) == IF HasScheme(s) THEN 2 ELSE 1

NumericLabels == {"10", "127", "169", "254", "0", "1"}

\* a literal IPv4 address
IsIP(labels) == Len(labels) = 4 /\ \A i \in 1..4 : labels[i] \in NumericLabels

\* a domain name with a top-level domain
IsFQDN(labels) ==
  /\ Len(labels) >= 2
  /\ \A i \in DOMAIN labels : labels[i] # ""
  /\ labels[Len(labels)] \notin NumericLabels

\* validator.isURL(url, { protocols: ['http', 'https'], require_protocol: false })
isURL(s) ==
  /\ HasScheme(s) => LowerScheme(s[1].v) \in {"http", "https"}
  /\ Len(s) \in {HostPart(s), HostPart(s) + 1}
  /\ s[HostPart(s)].part = "host"
  /\ IsIP(s[HostPart(s)].labels) \/ IsFQDN(s[HostPart(s)].labels)
  /\ Len(s) > HostPart(s) => s[Len(s)].part = "path"

\* url.startsWith('http') for a string that isURL
HttpLabels == {"http", "https", "httpbin"}

startsWithHttp(s) ==
  IF HasScheme(s) THEN s[1].v \in HttpLabels ELSE s[1].labels[1] \in HttpLabels

\* hostname === domain || hostname.endsWith(`.${domain}`)
HostMatches(labels, domain) ==
  /\ Len(labels) >= Len(domain)
  /\ SubSeq(labels, Len(labels) - Len(domain) + 1, Len(labels)) = domain

\* new URL(urlWithProtocol).href; "https://" put in front of a string that
\* has a protocol of its own makes that protocol the host
Href(s) ==
  LET host == s[HostPart(s)].labels
  IN  IF HasScheme(s) /\ ~startsWithHttp(s)
      THEN <<Scheme("https"), Host(<<LowerScheme(s[1].v)>>), Path("//")>>
      ELSE <<Scheme(IF HasScheme(s) THEN s[1].v ELSE "https"),
             Host([i \in DOMAIN host |-> LowerLabel(host[i])]),
             IF Len(s) > HostPart(s) THEN s[Len(s)] ELSE Path("/")>>

UrlOk(url) == [valid |-> TRUE, url |-> url]

validateYouTubeUrl_NoWhitelist(url) ==
  IF Falsy(url) \/ ~IsString(url) THEN Rejected("URL is required")
  ELSE IF ~isURL(url.s) THEN Rejected("Invalid URL format")
  ELSE IF ~HasScheme(url.s) /\ startsWithHttp(url.s) THEN Rejected("Invalid URL")
  ELSE UrlOk(Str(Href(url.s)))

validateYouTubeUrl(url) ==
  IF Falsy(url) \/ ~IsString(url) THEN Rejected("URL is required")
  ELSE IF ~isURL(url.s) THEN Rejected("Invalid URL format")
  ELSE IF ~HasScheme(url.s) /\ startsWithHttp(url.s) THEN Rejected("Invalid URL")
  ELSE LET hostname == Href(url.s)[2].labels
       IN  IF ~\E i \in DOMAIN YOUTUBE_DOMAINS : HostMatches(hostname, YOUTUBE_DOMAINS[i])
           THEN Rejected("URL must be from YouTube")
           ELSE UrlOk(Str(Href(url.s)))

\* validateDownloadRequest(req, res, next): next is called, or 400 is answered
BadRequest(error, message) ==
  [next |-> FALSE, status |-> 400, error |-> error, message |-> message]

validateDownloadRequest_NoUrlCheck(body) ==
  LET urlResult == validateYouTubeUrl(body.url)
      formatResult ==
        validateAudioFormat(IF Falsy(body.format) THEN Str(<<"m", "p", "3">>) ELSE body.format)
      nameResult == validateCustomFilename(body.customName)
  IN  IF ~formatResult.valid THEN BadRequest("Invalid format", formatResult.error)
      ELSE IF ~Falsy(body.customName) /\ ~nameResult.valid
        THEN BadRequest("Invalid filename", nameResult.error)
      ELSE [next |-> TRUE,
            validatedUrl |-> body.url,
            validatedFormat |-> formatResult.format,
            validatedCustomName |->
              IF Falsy(body.customName) THEN Undefined ELSE nameResult.filename]

validateDownloadRequest(body) ==
  LET urlResult == validateYouTubeUrl(body.url)
      formatResult ==
        validateAudioFormat(IF Falsy(body.format) THEN Str(<<"m", "p", "3">>) ELSE body.format)
      nameResult == validateCustomFilename(body.customName)
  IN  IF ~urlResult.valid THEN BadRequest("Invalid URL", urlResult.error)
      ELSE IF ~formatResult.valid THEN BadRequest("Invalid format", formatResult.error)
      ELSE IF ~Falsy(body.customName) /\ ~nameResult.valid
        THEN BadRequest("Invalid filename", nameResult.error)
      ELSE [next |-> TRUE,
            validatedUrl |-> urlResult.url,
            validatedFormat |-> formatResult.format,
            validatedCustomName |->
              IF Falsy(body.customName) THEN Undefined ELSE nameResult.filename]

(* The validators called on their own *)

MaxStrLen == 4

FormatAlphabet == {"m", "p", "3", "M", "P", "a", " ", ";"}

RECURSIVE StringsUpTo(_, _)
StringsUpTo(alphabet, n) ==
  IF n = 0 THEN {<<>>}
  ELSE LET shorter == StringsUpTo(alphabet, n - 1)
       IN  shorter \cup {Append(s, c) : s \in shorter, c \in alphabet}

\* "mp3; rm -rf /"
Injection == <<"m", "p", "3", ";", " ", "r", "m", " ", "-", "r", "f", " ", "/">>

FormatInputs ==
  {Undefined, Num(0), Num(3), Str(Injection), Str(<<"F", "L", "A", "C">>)}
    \cup {Str(s) : s \in StringsUpTo(FormatAlphabet, MaxStrLen)}

MaxNameLen == 3

NameAlphabet == {"a", "S", " ", ".", "/", "\\", ";", "_"}

Repeat(c, n) == [i \in 1..n |-> c]

MySong == <<"M", "y", " ", "S", "o", "n", "g">>

\* "../../etc/passwd"
Traversal == <<".", ".", "/", ".", ".", "/", "e", "t", "c", "/", "p", "a", "s", "s", "w", "d">>

NameInputs ==
  {Undefined, Null, Num(7), Str(MySong), Str(Traversal),
   Str(Repeat("a", MaxFilenameLength)), Str(Repeat("a", MaxFilenameLength + 1))}
    \cup {Str(s) : s \in StringsUpTo(NameAlphabet, MaxNameLen)}

UrlSchemes == {"http", "https", "HTTP", "ftp"}

\* whitelisted domains and subdomains of them
YouTubeHosts ==
  {<<"youtu", "be">>, <<"youtube", "com">>, <<"www", "youtube", "com">>,
   <<"m", "youtube", "com">>, <<"music", "youtube", "com">>,
   <<"WWW", "YouTube", "COM">>, <<"sub", "youtube", "com">>, <<"www", "youtu", "be">>}

\* other domains, private, loopback and link-local addresses
OtherHosts ==
  {<<"evil", "com">>, <<"youtube", "com", "evil", "com">>, <<"evilyoutube", "com">>,
   <<"youtube", "evil">>, <<"com">>, <<"localhost">>, <<"httpbin", "org">>,
   <<"169", "254", "169", "254">>, <<"127", "0", "0", "1">>, <<"10", "0", "0", "1">>}

UrlPaths == {"/abc123", "/x"}

UrlStrings ==
  LET hosts == {Host(h) : h \in YouTubeHosts \cup OtherHosts}
      bare == {<<h>> : h \in hosts} \cup {<<h, Path(p)>> : h \in hosts, p \in UrlPaths}
  IN  bare \cup {<<Scheme(sch)>> \o u : sch \in UrlSchemes, u \in bare}
           \cup {<<Text("not a url")>>, <<Host(<<"youtube", "com">>), Text(" x")>>}

UrlInputs == {Undefined, Num(7), Str(<<>>)} \cup {Str(u) : u \in UrlStrings}

\* the calls that can be made: a validator and its argument
Pending(fn, inputs) == {[fn |-> fn, arg |-> v, ret |-> Undefined] : v \in inputs}

\* the validator is about to be called with one of the inputs
ValidatorInit ==
  /\ now = StartTime
  /\ downloads = <<>>
  /\ nextId = 1
  /\ sinks = <<>>
  /\ broken = {}
  /\ closeTimers = {}
  /\ nextCleanup = StartTime + CleanupIntervalMs
  /\ budget = MaxEvents
  /\ lastAdd = NoAdd
  /\ pc = <<>>
  /\ downloadTokens = <<>>
  /\ nextToken = 1
  /\ tokenTimers = {}
  /\ nextSweep = StartTime + TokenSweepIntervalMs
  /\ validations = <<>>
  /\ lastReq = NoReq
  /\ limits = NoHits
  /\ files = {}
  /\ hook = NoHook
  /\ call \in Pending("validateAudioFormat", FormatInputs)
               \cup Pending("validateCustomFilename", NameInputs)
               \cup Pending("validateYouTubeUrl", UrlInputs)

Called == call.ret # Undefined

CallValidateAudioFormat ==
  /\ call.fn = "validateAudioFormat"
  /\ ~Called
  /\ call' = [call EXCEPT !.ret = validateAudioFormat(call.arg)]
  /\ UNCHANGED <<now, budget, pc, trackerVars, tokenVars, lastReq, limits, files, hook>>

CallValidateCustomFilename ==
  /\ call.fn = "validateCustomFilename"
  /\ ~Called
  /\ call' = [call EXCEPT !.ret = validateCustomFilename(call.arg)]
  /\ UNCHANGED <<now, budget, pc, trackerVars, tokenVars, lastReq, limits, files, hook>>

CallValidateYouTubeUrl ==
  /\ call.fn = "validateYouTubeUrl"
  /\ ~Called
  /\ call' = [call EXCEPT !.ret = validateYouTubeUrl(call.arg)]
  /\ UNCHANGED <<now, budget, pc, trackerVars, tokenVars, lastReq, limits, files, hook>>

ValidatorNext ==
  \/ CallValidateAudioFormat
  \/ CallValidateCustomFilename
  \/ CallValidateYouTubeUrl

ValidatorSpec == ValidatorInit /\ [][ValidatorNext]_vars

----------------------------------------------------------------------------
(* Admission: the rate limiters in front of the routes, request validation *)

Clients == {"a", "b"}

\* windowMs and max of apiLimiter (config.rateLimit) and downloadLimiter
RATE_LIMIT_WINDOW_MS == 900000
RATE_LIMIT_MAX_REQUESTS == 10
DownloadWindowMs == 15 * 60 * 1000
DownloadMax == 5

WindowMs(l) == IF l = "api" THEN RATE_LIMIT_WINDOW_MS ELSE DownloadWindowMs

MaxHits(l) == IF l = "api" THEN RATE_LIMIT_MAX_REQUESTS ELSE DownloadMax

\* the limiter's store: the client's counter in its current window
Counter(L, l, client, t) ==
  IF client \in DOMAIN L[l] /\ L[l][client].resetTime > t
  THEN L[l][client]
  ELSE [hits |-> 0, resetTime |-> t + WindowMs(l)]

\* store.increment(key)
increment(L, l, client, t) ==
  LET c == Counter(L, l, client, t)
      hit == [c EXCEPT !.hits = @ + 1]
  IN  [L EXCEPT ![l] = IF client \in DOMAIN @ THEN [@ EXCEPT ![client] = hit]
                       ELSE @ @@ (client :> hit)]

\* the request is over the limit: the limiter answers 429
Limited(L, l, client) == L[l][client].hits > MaxHits(l)

TooMany(L, error) == [L |-> L, next |-> FALSE, status |-> 429, error |-> error]

\* app.use(apiLimiter): every route behind it
apiLimiter(L, client, t) ==
  LET L1 == increment(L, "api", client, t)
  IN  IF Limited(L1, "api", client) THEN TooMany(L1, "Too many requests")
      ELSE [L |-> L1, next |-> TRUE]

downloadLimiter_NoLimit(L, client, t) ==
  [L |-> increment(L, "download", client, t), next |-> TRUE]

downloadLimiter(L, client, t) ==
  LET L1 == increment(L, "download", client, t)
  IN  IF Limited(L1, "download", client) THEN TooMany(L1, "Download limit exceeded")
      ELSE [L |-> L1, next |-> TRUE]

\* the chain of POST /download up to its handler: apiLimiter, speedLimiter
\* (which only delays), downloadLimiter, validateDownloadRequest
downloadChain(L, client, body, t) ==
  LET a == apiLimiter(L, client, t) IN
  IF ~a.next THEN [L |-> a.L, status |-> 429, error |-> a.error]
  ELSE LET d == downloadLimiter(a.L, client, t) IN
       IF ~d.next THEN [L |-> d.L, status |-> 429, error |-> d.error]
       ELSE LET v == validateDownloadRequest(body) IN
            IF ~v.next THEN [L |-> d.L, status |-> 400, error |-> v.error]
            ELSE [L |-> d.L, status |-> 200, error |-> ""]

\* the chain of GET /health: apiLimiter, then the handler
healthChain(L, client, t) ==
  LET a == apiLimiter(L, client, t) IN
  IF ~a.next THEN [L |-> a.L, status |-> 429, error |-> a.error]
  ELSE [L |-> a.L, status |-> 200, error |-> ""]

\* the store's interval: the counters whose window is over are dropped
clearExpired(L, t) ==
  [l \in Limiters |->
     [c \in {x \in DOMAIN L[l] : L[l][x].resetTime > t} |-> L[l][c]]]

MaxAdmitted == 4
MaxExcess == 1

RECURSIVE SumHits(_, _, _)
SumHits(L, t, C) ==
  IF C = {} THEN 0
  ELSE LET c == CHOOSE x \in C : TRUE
       IN  Counter(L, "api", c, t).hits + SumHits(L, t, C \ {c})

\* the traffic of one window: the clients together go MaxExcess requests
\* beyond what the general limiter lets one client send
MaySend == SumHits(limits, now, Clients) < RATE_LIMIT_MAX_REQUESTS + MaxExcess

GoodUrl == Str(<<Scheme("https"), Host(<<"youtu", "be">>), Path("/abc123")>>)
EvilUrl == Str(<<Scheme("https"), Host(<<"evil", "com">>), Path("/abc123")>>)

Body(url, format, customName) == [url |-> url, format |-> format, customName |-> customName]

\* the clock passes the end of the window
WindowTick ==
  /\ now < MaxApiTime
  /\ \A d \in TrackerDue : d > now
  /\ now' = Min(NextGrid(now, TickMs), SetMin(TrackerDue))
  /\ limits' = clearExpired(limits, now')
  /\ UNCHANGED <<budget, pc, trackerVars, tokenVars, lastReq, files, call, hook>>

GoodBody == Body(GoodUrl, Undefined, Undefined)
BadBody == Body(EvilUrl, Undefined, Undefined)

GoodBodies ==
  {GoodBody,
   Body(GoodUrl, Str(<<"M", "P", "3">>), Str(<<"M", "y", " ", "S", "o", "n", "g">>))}

BadBodies ==
  {BadBody,
   Body(GoodUrl, Str(<<"e", "x", "e">>), Undefined),
   Body(GoodUrl, Undefined, Str(<<".", ".", "/", "x">>))}

\* POST /download
PostRequest(client, body, maxJobs) ==
  LET r == downloadChain(limits, client, body, now) IN
  /\ MaySend
  /\ limits' = r.L
  /\ IF r.status = 200
     THEN /\ nextId <= maxJobs
          /\ StartJob
          /\ lastReq' = [route |-> "download", client |-> client, body |-> body,
                         status |-> 200, error |-> "", downloadId |-> nextId]
     ELSE /\ lastReq' = [route |-> "download", client |-> client, body |-> body,
                         status |-> r.status, error |-> r.error, downloadId |-> 0]
          /\ UNCHANGED <<downloads, sinks, closeTimers, broken, nextId, pc>>
  /\ UNCHANGED <<now, budget, nextCleanup, lastAdd, tokenVars, files, call, hook>>

\* GET /health
GetHealth(client) ==
  LET r == healthChain(limits, client, now) IN
  /\ MaySend
  /\ limits' = r.L
  /\ lastReq' = [route |-> "health", client |-> client, status |-> r.status,
                 error |-> r.error]
  /\ UNCHANGED <<now, budget, pc, trackerVars, tokenVars, files, call, hook>>

\* the limiters: two clients, job creation and health requests
LimiterNext ==
  \/ \E c \in Clients, b \in {GoodBody, BadBody} : PostRequest(c, b, MaxJobs)
  \/ \E c \in Clients : GetHealth(c)
  \/ WindowTick

LimiterSpec == Init /\ [][LimiterNext]_vars

AdmissionClient == "a"

\* job creation with requests of every kind, and the processes they start
AdmissionNext ==
  \/ \E b \in GoodBodies \cup BadBodies : PostRequest(AdmissionClient, b, MaxAdmitted)
  \/ \E id \in Ids, title \in Titles : MetadataResolved(id, title)
  \/ \E id \in Ids, code \in ExitCodes, e \in Errors : ProcError(id, code, e)

AdmissionSpec == Init /\ [][AdmissionNext]_vars

----------------------------------------------------------------------------
(* The page: the useDownloadProgress hook and its EventSource *)

ReconnectDelayMs == 2000
MaxConnects == 3

\* a || b for a string a, and for a number a
OrElse(a, b) == IF a = "" THEN b ELSE a
OrElseNum(a, b) == IF a = 0 THEN b ELSE a

\* eventSource.onmessage: the switch over data.type
onmessage(prev, data) ==
  CASE data.type = "connected" ->
         [prev EXCEPT !.status = OrElse(data.status, "connecting"),
                      !.progress = OrElseNum(data.progress, 0)]
    [] data.type = "status" ->
         [prev EXCEPT !.status = OrElse(data.status, prev.status),
                      !.statusMessage = OrElse(data.message, "")]
    [] data.type = "progress" ->
         [prev EXCEPT !.progress = OrElseNum(data.progress, prev.progress),
                      !.speed = OrElse(data.speed, prev.speed),
                      !.eta = OrElse(data.eta, prev.eta),
                      !.status = OrElse(data.status, "downloading")]
    [] data.type = "complete" ->
         [prev EXCEPT !.progress = 100, !.status = "completed",
                      !.statusMessage = "Download complete!",
                      !.result = Some(data.result)]
    [] data.type = "error" ->
         [prev EXCEPT !.status = "failed", !.error = Some(OrElse(data.error, "Download failed"))]
    [] OTHER -> prev

\* connect(): a new EventSource, setState(prev => ({ ...prev, status: 'connecting' }))
connect(h) ==
  [h EXCEPT !.es = "open", !.state.status = "connecting", !.timer = None,
            !.connects = @ + 1]

\* eventSource.onerror: state is the one of the render in which the effect ran
onerror(h, t) ==
  [h EXCEPT !.es = "closed",
            !.timer = IF h.seen.status \notin {"completed", "failed"}
                      THEN Some(t + ReconnectDelayMs) ELSE @]

\* the frames the server sends for job 1
HookFrames ==
  {ConnectedFrame(NewDownload(1)),
   ConnectedFrame([NewDownload(1) EXCEPT !.status = "completed", !.progress = 100]),
   StatusFrame(1, "downloading", "")}
    \cup {ProgressFrame(1, data) : data \in ProgressInputs}
    \cup {CompleteFrame(1, r) : r \in Results}
    \cup {ErrorFrame(1, e) : e \in Errors}

HookUnchanged == UNCHANGED <<budget, pc, trackerVars, tokenVars, lastReq, limits, files, call>>

\* the component passes a downloadId: the effect runs and connects
SetDownloadId ==
  /\ ~hook.mounted
  /\ hook.connects < MaxConnects
  /\ hook' = connect([hook EXCEPT !.mounted = TRUE, !.seen = hook.state])
  /\ UNCHANGED now
  /\ HookUnchanged

\* the component passes null: the effect's cleanup
ClearDownloadId ==
  /\ hook.mounted
  /\ hook' = [hook EXCEPT !.mounted = FALSE, !.es = "closed", !.timer = None]
  /\ UNCHANGED now
  /\ HookUnchanged

Reset ==
  /\ hook.state # IdleState
  /\ hook' = [hook EXCEPT !.state = IdleState]
  /\ UNCHANGED now
  /\ HookUnchanged

OnMessage(data) ==
  /\ hook.mounted
  /\ hook.es = "open"
  /\ hook' = [hook EXCEPT !.state = onmessage(@, data)]
  /\ UNCHANGED now
  /\ HookUnchanged

\* the stream ends or the connection fails
OnError ==
  /\ hook.mounted
  /\ hook.es = "open"
  /\ hook' = onerror(hook, now)
  /\ UNCHANGED now
  /\ HookUnchanged

\* the setTimeout(connect, 2000) callback
Reconnect ==
  /\ IsSome(hook.timer)
  /\ Val(hook.timer) <= now
  /\ hook.connects < MaxConnects
  /\ hook' = connect(hook)
  /\ UNCHANGED now
  /\ HookUnchanged

HookTick ==
  /\ IsSome(hook.timer)
  /\ Val(hook.timer) > now
  /\ now' = Val(hook.timer)
  /\ hook' = hook
  /\ HookUnchanged

HookNext ==
  \/ SetDownloadId
  \/ ClearDownloadId
  \/ Reset
  \/ \E data \in HookFrames : OnMessage(data)
  \/ OnError
  \/ Reconnect
  \/ HookTick

HookSpec == Init /\ [][HookNext]_vars

----------------------------------------------------------------------------
(* Properties *)

Rank(status) ==
  CASE status = "initializing" -> 0
    [] status = "fetching_metadata" -> 1
    [] status = "downloading" -> 2
    [] OTHER -> 3

Kept == DOMAIN downloads \cap DOMAIN downloads'

\* the frames a sink receives in this step
NewFrames(s) ==
  SubSeq(sinks'[s].received, Len(sinks[s].received) + 1, Len(sinks'[s].received))

\* C1: a job's status only moves forward (initializing, fetching_metadata,
\* downloading, then completed or failed), and a completed or failed status
\* never changes again, whatever registry method is called.
C1_StatusForwardOnly ==
  [][\A id \in Kept :
       /\ Rank(downloads'[id].status) >= Rank(downloads[id].status)
       /\ downloads[id].status \in Terminal
            => downloads'[id].status = downloads[id].status]_vars

\* C4: once a job is completed or failed, completeDownload and failDownload
\* change nothing: result, error and the terminal timestamps stay as they are
\* and no complete or error frame is sent.
C4_TerminalCallIsNoOp ==
  [][\A id \in Kept :
       downloads[id].status \in Terminal =>
         /\ downloads'[id].result = downloads[id].result
         /\ downloads'[id].error = downloads[id].error
         /\ downloads'[id].completedAt = downloads[id].completedAt
         /\ downloads'[id].failedAt = downloads[id].failedAt
         /\ \A s \in DOMAIN sinks :
              sinks[s].job = id =>
                \A i \in 1..Len(NewFrames(s)) :
                  NewFrames(s)[i].type \notin {"complete", "error"}]_vars

\* C5: in every state of a job driven by its background task at most one of
\* result and error is populated, result only with status completed and error
\* only with status failed.
C5_ResultXorError ==
  \A id \in DOMAIN downloads :
    LET d == downloads[id] IN
      /\ ~(IsSome(d.result) /\ IsSome(d.error))
      /\ IsSome(d.result) => d.status = "completed"
      /\ IsSome(d.error) => d.status = "failed"

\* C5 witness: a download that failed midway has its error populated.
C5_Witness ==
  \E id \in DOMAIN downloads :
    /\ downloads[id].status = "failed"
    /\ IsSome(downloads[id].error)
    /\ downloads[id].progress > 0

\* C6: while a job is downloading, its stored progress never decreases,
\* whatever percentages yt-dlp prints.
C6_ProgressNeverDecreases ==
  [][\A id \in Kept :
       downloads[id].status = "downloading" /\ downloads'[id].status = "downloading"
         => downloads'[id].progress >= downloads[id].progress]_vars

C7_FirstIsConnected ==
  \A s \in DOMAIN sinks :
    LET r == sinks[s].received IN
      r # <<>> =>
        /\ r[1].type = "connected"
        /\ \A i \in 2..Len(r) : r[i].type # "connected"

C7_SnapshotOnSubscribe ==
  \A s \in DOMAIN sinks' \ DOMAIN sinks :
    (lastAdd'.sink = s /\ lastAdd'.ret /\ s \notin broken') =>
      sinks'[s].received =
        <<[type |-> "connected", downloadId |-> lastAdd'.id,
           progress |-> downloads[lastAdd'.id].progress,
           status |-> downloads[lastAdd'.id].status]>>

\* C7: the first frame a subscribed sink receives is a connected frame with the
\* job's status and progress at the moment of addClient, and no other frame
\* reaches the sink before it.
C7_ConnectedFirst == []C7_FirstIsConnected /\ [][C7_SnapshotOnSubscribe]_vars

\* C7 witness: a sink that subscribed to a job already downloading at 60% and
\* received a later frame.
C7_Witness ==
  \E s \in DOMAIN sinks :
    /\ Len(sinks[s].received) >= 2
    /\ sinks[s].received[1].type = "connected"
    /\ sinks[s].received[1].status = "downloading"
    /\ sinks[s].received[1].progress = 60

IsStatus(f, status) == f.type = "status" /\ f.status = status

\* C8: a client that creates a job and opens its stream before the download
\* starts observes connected, status(fetching_metadata), status(downloading),
\* progress frames, complete, with exactly one complete frame, and the stream
\* is closed within the grace delay.
C8_EndToEndSequence ==
  \A s \in DOMAIN sinks :
    LET r == sinks[s].received IN
      (/\ \E i \in 1..Len(r) : r[i].type = "complete"
       /\ r[1].type = "connected"
       /\ r[1].status \in {"initializing", "fetching_metadata"}) =>
        /\ Len(r) >= 4
        /\ IsStatus(r[2], "fetching_metadata")
        /\ IsStatus(r[3], "downloading")
        /\ \A i \in 4..(Len(r) - 1) : r[i].type = "progress"
        /\ r[Len(r)].type = "complete"
        /\ Cardinality({i \in 1..Len(r) : r[i].type = "complete"}) = 1
        /\ (sinks[s].job \in DOMAIN downloads /\ ~sinks[s].ended
              /\ s \in downloads[sinks[s].job].clients)
             => now <= Val(downloads[sinks[s].job].completedAt) + CloseDelayMs

\* C9: two sinks subscribed to the same job, both accepting writes, receive in
\* every step the same frames in the same order.
C9_SameFramesToAll ==
  [][\A id \in DOMAIN downloads :
       \A s1, s2 \in downloads[id].clients \ broken :
         NewFrames(s1) = NewFrames(s2)]_vars

\* C9 witness: two writable sinks on one job that both received a broadcast frame.
C9_Witness ==
  \E s1, s2 \in DOMAIN sinks :
    /\ s1 # s2
    /\ sinks[s1].job = sinks[s2].job
    /\ {s1, s2} \cap broken = {}
    /\ Len(sinks[s1].received) >= 3
    /\ Len(sinks[s2].received) >= 2
    /\ sinks[s2].received[Len(sinks[s2].received)].type # "connected"

\* a terminal timestamp of d lies more than window before t
PastRetention(d, t, window) ==
  \/ (IsSome(d.completedAt) /\ t - Val(d.completedAt) > window)
  \/ (IsSome(d.failedAt) /\ t - Val(d.failedAt) > window)

\* this step is a subscribe attempt on id that was accepted
Subscribed(id) ==
  /\ DOMAIN sinks' # DOMAIN sinks
  /\ lastAdd'.id = id
  /\ lastAdd'.ret

\* C10: once more than one hour has passed since a job's terminal timestamp,
\* addClient for that job returns false.
C10_NotFoundAfterRetention ==
  [][\A id \in DOMAIN downloads :
       PastRetention(downloads[id], now, oneHour) => ~Subscribed(id)]_vars

\* C10 as amended: a sweep leaves no job whose terminal timestamp is more than
\* one hour back, so addClient returns false from the first sweep that runs
\* more than one hour after the terminal timestamp; with the hourly sweep on
\* time that is at most two hours after it.
C10_NotFoundAfterSweep ==
  [][/\ nextCleanup' # nextCleanup =>
          \A id \in DOMAIN downloads' : ~PastRetention(downloads'[id], now', oneHour)
     /\ \A id \in Ids :
          Subscribed(id) =>
            /\ id \in DOMAIN downloads
            /\ ~PastRetention(downloads[id], now, oneHour + CleanupIntervalMs)]_vars

\* C10 witness: a subscribe attempt on a job the sweep removed was refused.
C10_Witness ==
  /\ lastAdd.id \in Ids
  /\ lastAdd.id \notin DOMAIN downloads
  /\ ~lastAdd.ret

\* this step is a subscribe attempt: a new response object appeared
SubscribeStep == DOMAIN sinks' # DOMAIN sinks

\* C11: a subscribe attempt for an id that is not in the registry returns
\* false, registers no sink, sends no frame, and the progress endpoint answers
\* it with 404.
C11_UnknownJobNotFound ==
  [][(SubscribeStep /\ lastAdd'.id \notin DOMAIN downloads) =>
       /\ ~lastAdd'.ret
       /\ downloads' = downloads
       /\ \A s \in DOMAIN sinks : sinks'[s] = sinks[s]
       /\ sinks'[lastAdd'.sink].received = <<>>
       /\ lastReq' # lastReq => lastReq'.status = 404]_vars

\* C11 witness: the endpoint answered 404 for a job the sweep had removed.
C11_Witness ==
  /\ lastReq.route = "progress"
  /\ lastReq.status = 404
  /\ lastReq.id \in Ids
  /\ lastReq.id \notin DOMAIN downloads
  /\ sinks[lastReq.sink].received = <<>>

\* this step answers a retrieval request
DownloadStep ==
  /\ lastReq'.route = "downloads"
  /\ lastReq' # lastReq

\* the token presented cannot pass: unknown, used, past expiry or bound to
\* another file
TokenFails(token, filename) ==
  LET h == Hash(token) IN
    \/ h \notin DOMAIN downloadTokens
    \/ downloadTokens[h].used
    \/ now > downloadTokens[h].expiresAt
    \/ downloadTokens[h].filename # filename

\* C12: a retrieval request without a token is answered 401 and one whose
\* token fails validation 403, whether or not the file exists; 404 is answered
\* only after a successful validation.
C12_DenialIgnoresFile ==
  [][DownloadStep =>
       LET q == lastReq'.query
           f == lastReq'.filename
       IN  /\ ~IsSome(q) => lastReq'.status = 401
           /\ (IsSome(q) /\ TokenFails(Val(q), f)) => lastReq'.status = 403
           /\ lastReq'.status \in {200, 404} => (IsSome(q) /\ ~TokenFails(Val(q), f))]_vars

\* C12 witness: a request for a file that exists was refused with 403.
C12_Witness ==
  /\ lastReq.route = "downloads"
  /\ lastReq.status = 403
  /\ lastReq.error = "Token already used"
  /\ lastReq.filename \in files

\* C20: validateAudioFormat accepts exactly the strings that, lower-cased, are
\* a whitelisted format, and returns the lower-case form.
C20_AcceptsExactlyLowerCased ==
  (call.fn = "validateAudioFormat" /\ Called) =>
    /\ call.ret.valid <=>
         (IsString(call.arg) /\ InList(ALLOWED_FORMATS, toLowerCase(call.arg.s)))
    /\ call.ret.valid => call.ret.format = toLowerCase(call.arg.s)

\* C20 as amended: validateAudioFormat accepts exactly the strings that,
\* lower-cased and with the white space around them removed, are a whitelisted
\* format, and returns that form, which is always a member of the whitelist.
C20_AcceptsExactlyNormalized ==
  (call.fn = "validateAudioFormat" /\ Called) =>
    /\ call.ret.valid <=>
         (IsString(call.arg) /\ InList(ALLOWED_FORMATS, trim(toLowerCase(call.arg.s))))
    /\ call.ret.valid =>
         /\ call.ret.format = trim(toLowerCase(call.arg.s))
         /\ InList(ALLOWED_FORMATS, call.ret.format)
    /\ call.arg = Str(Injection) => ~call.ret.valid

\* C20 witness: "MP3" is accepted and returned as "mp3".
C20_Witness ==
  /\ call.fn = "validateAudioFormat"
  /\ Called
  /\ call.arg = Str(<<"M", "P", "3">>)
  /\ call.ret = [valid |-> TRUE, format |-> <<"m", "p", "3">>]

ValidateStep == Len(validations') = Len(validations) + 1

LastValidation == validations'[Len(validations')]

AcceptedBefore(token) ==
  \E i \in 1..Len(validations) :
    validations[i].token = token /\ validations[i].result.valid

C2_AtMostOnce ==
  \A i, j \in 1..Len(validations) :
    (i < j /\ validations[i].token = validations[j].token /\ validations[i].result.valid)
      => ~validations[j].result.valid

C2_SecondIsRejected ==
  (ValidateStep /\ AcceptedBefore(LastValidation.token)) =>
    LastValidation.result =
      IF Hash(LastValidation.token) \in DOMAIN downloadTokens
      THEN [valid |-> FALSE, error |-> "Token already used"]
      ELSE [valid |-> FALSE, error |-> "Invalid token"]

\* C2: a token is accepted at most once; validating an accepted token again
\* fails, with 'Token already used' as long as its entry is kept.
C2_AcceptedAtMostOnce == []C2_AtMostOnce /\ [][C2_SecondIsRejected]_vars

\* C2 witness: the same token and filename validated twice: success, then
\* 'Token already used'.
C2_Witness ==
  /\ Len(validations) = 2
  /\ validations[1].token = validations[2].token
  /\ validations[1].filename = validations[2].filename
  /\ validations[1].result.valid
  /\ validations[2].result.error = "Token already used"

ExpiredBefore(token) ==
  \E i \in 1..Len(validations) :
    validations[i].token = token /\ validations[i].result.error = "Token expired"

\* C13: a failing validation reports the reason that matches the token's
\* state, on every later attempt as well as the first: a token that was used
\* is reported as already used, a token past its expiry as expired.
C13_ReasonOnEveryAttempt ==
  [][(ValidateStep /\ ~LastValidation.result.valid) =>
       /\ AcceptedBefore(LastValidation.token)
            => LastValidation.result.error = "Token already used"
       /\ (ExpiredBefore(LastValidation.token) /\ ~AcceptedBefore(LastValidation.token))
            => LastValidation.result.error = "Token expired"]_vars

\* C13 as amended: the reason matches the entry the store holds (not found,
\* already used, expired, filename mismatch, tested in this order); a used
\* token is reported as already used while its entry is kept, and a token
\* reported as expired is reported as not found afterwards, the entry having
\* been deleted.
C13_ReasonMatchesEntry ==
  [][(ValidateStep /\ ~LastValidation.result.valid) =>
       LET h == Hash(LastValidation.token)
           err == LastValidation.result.error
       IN  /\ h \notin DOMAIN downloadTokens <=> err = "Invalid token"
           /\ h \in DOMAIN downloadTokens =>
                /\ downloadTokens[h].used <=> err = "Token already used"
                /\ AcceptedBefore(LastValidation.token) => downloadTokens[h].used
                /\ (~downloadTokens[h].used /\ now > downloadTokens[h].expiresAt)
                     <=> err = "Token expired"
                /\ err = "Token does not match file"
                     => downloadTokens[h].filename # LastValidation.filename
           /\ err = "Token expired" => h \notin DOMAIN downloadTokens'
           /\ ExpiredBefore(LastValidation.token) => err = "Invalid token"]_vars

\* C13 witness: a token reported as expired is reported as not found on the
\* next attempt.
C13_Witness ==
  /\ Len(validations) = 2
  /\ validations[1].token = validations[2].token
  /\ validations[1].result.error = "Token expired"
  /\ validations[2].result.error = "Invalid token"

\* C3: validateDownloadToken returns valid only if the hash is stored, the time
\* is not past expiresAt, the entry is unused and the filename is the bound one.
C3_ValidOnlyIf ==
  [][(ValidateStep /\ LastValidation.result.valid) =>
       LET h == Hash(LastValidation.token) IN
         /\ h \in DOMAIN downloadTokens
         /\ ~(now > downloadTokens[h].expiresAt)
         /\ ~downloadTokens[h].used
         /\ downloadTokens[h].filename = LastValidation.filename]_vars

\* C3 witness: a token never accepted is refused as expired.
C3_Witness ==
  \E i \in 1..Len(validations) :
    /\ validations[i].result.error = "Token expired"
    /\ \A j \in 1..Len(validations) :
         validations[j].token = validations[i].token => ~validations[j].result.valid

----------------------------------------------------------------------------
(* Claims about admission *)

\* a request was answered: its limiter counted it
RequestStep == now' = now /\ limits' # limits

\* the client's job-creation requests counted in the window that is open
DownloadHits(client) == Counter(limits, "download", client, now).hits

JobsUnchanged == nextId' = nextId /\ downloads' = downloads /\ pc' = pc

\* C18: of one client's job-creation requests in a 15-minute window only the
\* first five pass the download limiter; every further one is answered 429,
\* creates no job and leaves nothing behind that would create one later.
C18_FivePerWindow ==
  [][/\ (RequestStep /\ lastReq'.route = "download") =>
          LET before == DownloadHits(lastReq'.client) IN
            /\ lastReq'.status \in {200, 400} => before < DownloadMax
            /\ before >= DownloadMax =>
                 /\ lastReq'.status = 429
                 /\ lastReq'.downloadId = 0
                 /\ JobsUnchanged
     /\ now' # now => JobsUnchanged]_vars

\* C18 witness: a client's sixth job-creation request of the window is refused
\* by the download limiter while the other client's request creates a job.
C18_Witness ==
  /\ lastReq.route = "download"
  /\ lastReq.status = 200
  /\ \E c \in Clients \ {lastReq.client} :
       /\ DownloadHits(c) = DownloadMax + 1
       /\ Counter(limits, "api", c, now).hits = DownloadMax + 1

\* C19: a health request is answered 200 whatever the client has sent before.
C19_HealthNeverLimited == lastReq.route = "health" => lastReq.status = 200

----------------------------------------------------------------------------
(* Claims about the background task *)

TerminalCalls == {"completeDownload", "failDownload"}

\* C15: the background task of a job makes no terminal call while the metadata
\* fetch or the process is pending, and exactly one once either has ended,
\* completeDownload or failDownload, which the registry's status reflects.
C15_ExactlyOneTerminalCall ==
  \A id \in DOMAIN pc :
    LET calls == pc[id].calls IN
      /\ Len(calls) <= 1
      /\ \A i \in 1..Len(calls) : calls[i] \in TerminalCalls
      /\ pc[id].at = "done" <=> Len(calls) = 1
      /\ id \in DOMAIN downloads =>
           /\ downloads[id].status = "completed" <=> calls = <<"completeDownload">>
           /\ downloads[id].status = "failed" <=> calls = <<"failDownload">>

\* C15 witness: one job ended by the close event, one by a rejected metadata
\* fetch, each with its single terminal call.
C15_Witness ==
  \E i, j \in DOMAIN pc :
    /\ pc[i].calls = <<"completeDownload">>
    /\ pc[j].calls = <<"failDownload">>
    /\ pc[j].exit = None

\* the output lines that report the download as finished
Confirming == {LineDone, LineInfo}

\* C16: a job is completed only if its process exited with code 0 and the last
\* output line confirmed completion; a process that exits non-zero fails it.
C16_FailedUnlessConfirmed ==
  \A id \in DOMAIN pc \cap DOMAIN downloads :
    /\ (IsSome(pc[id].exit) /\ pc[id].exit # Some(0)) => downloads[id].status = "failed"
    /\ downloads[id].status = "completed" =>
         /\ pc[id].exit = Some(0)
         /\ IsSome(pc[id].last)
         /\ Val(pc[id].last) \in Confirming

\* the error a request with one bad field is answered with
FieldError(body) ==
  IF body.url # GoodUrl THEN "Invalid URL"
  ELSE IF body.format \notin {Undefined, Str(<<"M", "P", "3">>)} THEN "Invalid format"
  ELSE "Invalid filename"

\* C14: a job-creation request that reaches validation with a bad url, format
\* or customName is answered 400 with the error of that field and creates no
\* job; one that passes validation is answered 200 with the id of the job it
\* created; and the registry gains a job in no other way.
C14_JobOnlyForValidRequests ==
  [][/\ (RequestStep /\ lastReq'.route = "download" /\ lastReq'.status # 429) =>
          /\ lastReq'.body \in BadBodies =>
               /\ lastReq'.status = 400
               /\ lastReq'.error = FieldError(lastReq'.body)
               /\ JobsUnchanged
          /\ lastReq'.body \in GoodBodies =>
               /\ lastReq'.status = 200
               /\ lastReq'.downloadId = nextId
               /\ DOMAIN downloads' = DOMAIN downloads \cup {nextId}
               /\ nextId \notin DOMAIN downloads
     /\ DOMAIN downloads' # DOMAIN downloads =>
          /\ RequestStep
          /\ lastReq'.status = 200
          /\ lastReq'.body \in GoodBodies]_vars

\* C14 witness: after a request that created a job, one with a bad customName
\* is answered 400 and the registry still holds that one job.
C14_Witness ==
  /\ lastReq.route = "download"
  /\ lastReq.status = 400
  /\ lastReq.error = "Invalid filename"
  /\ DOMAIN downloads = {1}

MAX_CONCURRENT_DOWNLOADS == 3

Running == {id \in DOMAIN pc : pc[id].at = "running"}

\* C17: the number of jobs whose yt-dlp process is running never exceeds
\* MAX_CONCURRENT_DOWNLOADS.
C17_AtMostMaxConcurrent == Cardinality(Running) <= MAX_CONCURRENT_DOWNLOADS

----------------------------------------------------------------------------
(* Claims about the filename and URL validators *)

\* the shell metacharacters, the backquote aside
ShellMeta == {";", "&", "|", "$", "(", ")", "{", "}", "[", "]", "<", ">"}

\* the names the filename rule refuses
RefusedName(s) ==
  \/ Len(s) > MaxFilenameLength
  \/ includes(s, <<".", ".">>)
  \/ includes(s, <<"/">>)
  \/ includes(s, <<"\\">>)
  \/ s[1] = "."
  \/ \E i \in DOMAIN s : s[i] \in ShellMeta

\* C21: validateCustomFilename rejects a name that is too long, contains '..',
\* '/' or '\', starts with '.' or contains a shell metacharacter, and accepts
\* every other name, returning it trimmed and otherwise unchanged.
C21_RejectsUnsafeReturnsTrimmed ==
  (call.fn = "validateCustomFilename" /\ Called /\ IsString(call.arg) /\ call.arg.s # <<>>) =>
    /\ call.ret.valid <=> ~RefusedName(call.arg.s)
    /\ call.ret.valid => call.ret.filename = Str(trim(call.arg.s))

\* C22: validateYouTubeUrl accepts a URL only if its host is a whitelisted
\* domain or a subdomain of one, and returns it with that host; a URL with any
\* other host, a private, loopback or link-local address included, is
\* rejected; https://youtu.be/abc123 is accepted.
C22_OnlyWhitelistedHosts ==
  (call.fn = "validateYouTubeUrl" /\ Called) =>
    /\ call.ret.valid =>
         /\ IsString(call.arg)
         /\ \E i \in DOMAIN call.arg.s :
              call.arg.s[i].part = "host" /\ call.arg.s[i].labels \in YouTubeHosts
         /\ call.ret.url.s[2].labels \in YouTubeHosts
    /\ (IsString(call.arg) /\ \E i \in DOMAIN call.arg.s :
          call.arg.s[i].part = "host" /\ call.arg.s[i].labels \in OtherHosts)
         => ~call.ret.valid
    /\ call.arg = GoodUrl => call.ret = UrlOk(GoodUrl)

\* C22 witness: http://169.254.169.254/x passes the URL syntax check and is
\* rejected for its host.
C22_Witness ==
  /\ call.fn = "validateYouTubeUrl"
  /\ call.arg = Str(<<Scheme("http"), Host(<<"169", "254", "169", "254">>), Path("/x")>>)
  /\ call.ret = Rejected("URL must be from YouTube")

----------------------------------------------------------------------------
(* Claims about the fan-out, the grace delay and the sweep *)

\* in this step every writable sink subscribed to id received the one frame,
\* and no other sink received anything
FannedOut(id, frame) ==
  /\ \A s \in downloads[id].clients \ broken : NewFrames(s) = <<frame>>
  /\ \A s \in DOMAIN sinks \ (downloads[id].clients \ broken) : NewFrames(s) = <<>>

CloseScheduled(id) == [id |-> id, due |-> now + CloseDelayMs] \in closeTimers'

\* C23: updateStatus, updateProgress, completeDownload and failDownload on a
\* job in the registry each store their change and send one frame of their
\* type to every writable sink subscribed to the job at that moment, sinks
\* whose write throws among the subscribers or not.
C23_FrameToEverySubscriber ==
  [][\A id \in DOMAIN downloads :
       /\ \A st \in Statuses :
            UpdateStatus(id, st, StatusMessage(st)) =>
              /\ FannedOut(id, StatusFrame(id, st, StatusMessage(st)))
              /\ downloads'[id].status = st
       /\ \A data \in ProgressInputs :
            UpdateProgress(id, data) =>
              /\ FannedOut(id, ProgressFrame(id, data))
              /\ downloads'[id].progress = data.progress
       /\ \A r \in Results :
            CompleteDownload(id, r) =>
              /\ FannedOut(id, CompleteFrame(id, r))
              /\ downloads'[id].status = "completed"
              /\ CloseScheduled(id)
       /\ \A e \in Errors :
            FailDownload(id, e) =>
              /\ FannedOut(id, ErrorFrame(id, e))
              /\ downloads'[id].status = "failed"
              /\ CloseScheduled(id)]_vars

\* C23 witness: a job has a subscriber whose write throws and a later
\* subscriber that received a broadcast frame all the same.
C23_Witness ==
  \E s1, s2 \in DOMAIN sinks :
    /\ s1 < s2
    /\ sinks[s1].job = sinks[s2].job
    /\ sinks[s1].job \in DOMAIN downloads
    /\ {s1, s2} \subseteq downloads[sinks[s1].job].clients
    /\ s1 \in broken
    /\ s2 \notin broken
    /\ Len(sinks[s2].received) = 2
    /\ sinks[s2].received[2].type \in {"status", "progress", "complete", "error"}

\* the job's background task makes its terminal call in this step
TerminalStep(id) == pc[id].at # "done" /\ pc'[id].at = "done"

\* the server ends the response s in this step
Closed(s) == ~sinks[s].ended /\ sinks'[s].ended

\* the time of the job's terminal transition
TerminalTime(d) == IF IsSome(d.completedAt) THEN d.completedAt ELSE d.failedAt

\* C24: the step that completes or fails a job sends the complete or error
\* frame to every subscribed sink, closes none of them and leaves them
\* subscribed; a sink is closed only in a later step, at least the grace delay
\* after the terminal transition, which also empties the subscriber set.
C24_CloseAfterGraceDelay ==
  [][/\ \A id \in DOMAIN pc :
          TerminalStep(id) =>
            /\ downloads'[id].clients = downloads[id].clients
            /\ \A s \in downloads[id].clients :
                 /\ ~sinks'[s].ended
                 /\ s \notin broken =>
                      /\ Len(NewFrames(s)) = 1
                      /\ NewFrames(s)[1].type \in {"complete", "error"}
     /\ \A s \in DOMAIN sinks :
          Closed(s) =>
            LET id == sinks[s].job IN
              /\ \A j \in DOMAIN pc : ~TerminalStep(j)
              /\ IsSome(TerminalTime(downloads[id]))
              /\ now >= Val(TerminalTime(downloads[id])) + CloseDelayMs
              /\ downloads'[id].clients = {}]_vars

\* C24 witness: a sink that received the complete frame was closed when the
\* grace delay had passed.
C24_Witness ==
  \E s \in DOMAIN sinks :
    /\ sinks[s].ended
    /\ s \notin broken
    /\ sinks[s].received[Len(sinks[s].received)].type = "complete"
    /\ now = Val(downloads[sinks[s].job].completedAt) + CloseDelayMs

SweepStep == nextCleanup' # nextCleanup

\* C25, every step: a run of the sweep removes exactly the jobs with a terminal
\* timestamp more than one hour back and leaves every sink that was subscribed
\* to a removed job closed; no other step removes a job.
C25_SweepRemovesOld ==
  /\ SweepStep =>
       /\ DOMAIN downloads' =
            {id \in DOMAIN downloads : ~PastRetention(downloads[id], now, oneHour)}
       /\ \A id \in DOMAIN downloads \ DOMAIN downloads' :
            /\ downloads[id].status \in Terminal
            /\ \A s \in downloads[id].clients : sinks'[s].ended
  /\ ~SweepStep => DOMAIN downloads \subseteq DOMAIN downloads'

\* a job in a terminal status early enough for a sweep to find it old
TerminalInTime(id) ==
  /\ id \in DOMAIN downloads
  /\ IsSome(TerminalTime(downloads[id]))
  /\ Val(TerminalTime(downloads[id])) + oneHour + CleanupIntervalMs <= MaxTime

\* C25: each sweep removes exactly the jobs whose terminal timestamp is older
\* than the retention window, closing their sinks; a job that is not terminal
\* is never removed, and a terminal job is eventually removed: a job that
\* stayed would stay terminal for ever, and time and again there is none.
C25_SweepExactAndEventual ==
  /\ [][C25_SweepRemovesOld]_vars
  /\ []<>(\A id \in DOMAIN downloads : ~TerminalInTime(id))

\* C25 witness: the sweep removed a completed job and closed the sink that had
\* subscribed to it after its completion, while a younger job was kept.
C25_Witness ==
  /\ nextCleanup > StartTime + CleanupIntervalMs
  /\ \E s \in DOMAIN sinks :
       /\ sinks[s].job \notin DOMAIN downloads
       /\ sinks[s].ended
       /\ Len(sinks[s].received) = 1
       /\ sinks[s].received[1].status = "completed"
  /\ DOMAIN downloads # {}

----------------------------------------------------------------------------
(* Claims about the progress lines *)

\* the field of the record after the line: the line's value when it carries
\* one, the stored value otherwise
Pushed(found, stored) == IF IsSome(found) THEN Val(found) ELSE stored

\* C26: an output line changes exactly the stored fields it carries: the
\* percentage, the speed and the ETA found on the line are stored, and a field
\* the line does not carry keeps its stored value.
C26_OnlyPresentFieldsPushed ==
  [][\A id \in DOMAIN pc \cap DOMAIN downloads : \A line \in Lines :
       ProcProgress(id, line) =>
         /\ downloads'[id].progress = Pushed(PercentMatch(line), downloads[id].progress)
         /\ downloads'[id].speed = Pushed(SpeedMatch(line), downloads[id].speed)
         /\ downloads'[id].eta = Pushed(EtaMatch(line), downloads[id].eta)]_vars

----------------------------------------------------------------------------
(* Claims about the page *)

\* the stream of the mounted hook errors in this step
StreamError == hook.mounted /\ hook'.mounted /\ hook.es = "open" /\ hook'.es = "closed"

\* C27: on a stream error the hook closes its EventSource; when the state it
\* shows is completed or failed it schedules no new connection, otherwise it
\* schedules one 2 seconds later.
C27_NoReconnectOnceTerminal ==
  [][StreamError =>
       IF hook.state.status \in {"completed", "failed"}
       THEN hook'.timer = None
       ELSE hook'.timer = Some(now + ReconnectDelayMs)]_vars

\* the sink has been sent a frame carrying the job's result
GotResult(s) ==
  \E i \in DOMAIN sinks[s].received : sinks[s].received[i].type = "complete"

\* C28: a sink subscribed to a job that is completed, whether it came before or
\* after the completion, is closed within the grace delay (while it is open a
\* close of its job is pending) and has been sent a frame with the job's result
\* by the time it is closed.
C28_SubscriberGetsResultAndClose ==
  \A s \in DOMAIN sinks :
    LET id == sinks[s].job
    IN  (id \in DOMAIN downloads /\ downloads[id].status = "completed") =>
          /\ ~sinks[s].ended => \E tmr \in closeTimers : tmr.id = id
          /\ sinks[s].ended => GotResult(s)

----------------------------------------------------------------------------
(* Claims about what a refused retrieval leaves behind *)

\* Attempt is the log entry of the validateDownloadToken call of this step
Attempt == LastValidation

\* token was refused before for naming the wrong file and never accepted
RefusedForFile(token) ==
  /\ \E i \in DOMAIN validations :
       /\ validations[i].token = token
       /\ validations[i].result = Invalid("Token does not match file")
  /\ \A i \in DOMAIN validations :
       validations[i].token = token => ~validations[i].result.valid

C29_FailureKeepsToken ==
  ValidateStep =>
    /\ ~Attempt.result.valid =>
         /\ tokenTimers' = tokenTimers
         /\ \A h \in DOMAIN downloadTokens' : downloadTokens'[h] = downloadTokens[h]
    /\ Attempt.result = Invalid("Token does not match file") =>
         /\ downloadTokens' = downloadTokens
         /\ ~downloadTokens'[Hash(Attempt.token)].used
    /\ ( /\ RefusedForFile(Attempt.token)
         /\ Hash(Attempt.token) \in DOMAIN downloadTokens
         /\ downloadTokens[Hash(Attempt.token)].filename = Attempt.filename
         /\ now <= downloadTokens[Hash(Attempt.token)].expiresAt )
       => Attempt.result.valid

\* C29: a validateDownloadToken call that fails marks no token used and arms
\* no deletion; after a refusal for a wrong filename the entry is unchanged and
\* unused, and a later call with the bound filename before expiry is accepted.
C29_FailedCallNeverConsumes == [][C29_FailureKeepsToken]_vars

\* C29 witness: a token was refused for a wrong filename and accepted later
\* for its own.
C29_Witness ==
  \E i, j \in DOMAIN validations :
    /\ i < j
    /\ validations[i].token = validations[j].token
    /\ validations[i].result = Invalid("Token does not match file")
    /\ validations[j].result.valid

\* C30: a token turns used only in a retrieval that serves the artifact (200);
\* a request with a valid token for a file that is absent, answered 404,
\* leaves the token unused.
C30_UsedOnlyWhenServed ==
  [][\A h \in DOMAIN downloadTokens \cap DOMAIN downloadTokens' :
       (~downloadTokens[h].used /\ downloadTokens'[h].used) =>
         (lastReq'.route = "downloads" /\ lastReq'.status = 200)]_vars

====
